---------------------------- MODULE Spec2Model ----------------------------
(***************************************************************************)
(* Model of the vCard codec: Encoder (EncodeSchema / MarshalSchema) and    *)
(* Decoder (Decode / UnmarshalSchema).                                     *)
(*                                                                         *)
(* Text is a sequence of one-character strings.  A Go value is a record    *)
(* tagged with its reflect.Kind.  Go's map iteration order is unspecified, *)
(* so every loop over a Go map ranges over all iteration orders and the    *)
(* encode functions return the SET of results the runtime can produce.     *)
(***************************************************************************)
EXTENDS Integers, Sequences, FiniteSets, TLC

VARIABLES
    enc,      \* the Encoder: [smartStrings, newlineSequence]
    w,        \* the Encoder's sink (bytes written so far)
    writes,   \* number of Write calls made on the sink
    v,        \* the value the caller encodes
    schema,   \* the Schema the caller encodes with
    encCall,  \* last EncodeSchema / MarshalSchema call: its name and the settings in force
    encRet,   \* what that call returned: [err, bytes]
    dec,      \* the Decoder: [smartStrings, schemas, r]  (r = unread input)
    target,   \* the value behind the pointer passed to Decode
    decCall,  \* last Decode call: [op, data, before, smartStrings]
    decRet    \* the error Decode returned

vars == <<enc, w, writes, v, schema, encCall, encRet, dec, target, decCall, decRet>>

encVars == <<enc, w, writes, v, schema, encCall, encRet>>
decVars == <<dec, target, decCall, decRet>>

----------------------------------------------------------------------------
(* Bounds of the model                                                     *)

\* longest slice handed to the encoder
MaxSlice == 2
\* EncodeSchema calls made on one Encoder
MaxEncodes == 1
\* field lines after the VERSION line of a generated document
MaxLines == 2
\* schemas in a list given to NewDecoder
MaxSchemas == 3

----------------------------------------------------------------------------
(* Characters and strings                                                  *)

\* unicode.IsLetter, on the characters the model uses
Letters == {"A", "B", "C", "D", "E", "F", "G", "H", "I", "L", "N", "O", "R", "S", "T", "V",
            "a", "b", "x", "z"}

IsLetter(c) == c \in Letters

\* unicode.IsSpace, on the characters the model uses
IsSpace(c) == c \in {" ", "\t", "\n", "\r"}

CRLF == <<"\r", "\n">>
LF == <<"\n">>

\* strings.Contains(s, ":")
Contains(s, c) == \E i \in 1..Len(s) : s[i] = c

\* strings.Contains(s, sub) for a string sub
HasSubstr(s, sub) ==
    \E i \in 0..(Len(s) - Len(sub)) : SubSeq(s, i + 1, i + Len(sub)) = sub

RECURSIVE TrimLeft(_)
TrimLeft(s) == IF s # <<>> /\ IsSpace(Head(s)) THEN TrimLeft(Tail(s)) ELSE s

RECURSIVE TrimRight(_)
TrimRight(s) ==
    IF s # <<>> /\ IsSpace(s[Len(s)]) THEN TrimRight(SubSeq(s, 1, Len(s) - 1)) ELSE s

\* strings.TrimSpace
TrimSpace(s) == TrimRight(TrimLeft(s))

\* length of the first line of s, its "\n" included (the whole of s if it has none)
FirstLineLen(s) ==
    IF \E i \in 1..Len(s) : s[i] = "\n"
    THEN CHOOSE i \in 1..Len(s) : s[i] = "\n" /\ \A j \in 1..(i - 1) : s[j] # "\n"
    ELSE Len(s)

\* strings.Lines: the lines of s, each with its terminating "\n"
RECURSIVE Lines(_)
Lines(s) ==
    IF s = <<>> THEN <<>>
    ELSE LET n == FirstLineLen(s)
         IN  <<SubSeq(s, 1, n)>> \o Lines(SubSeq(s, n + 1, Len(s)))

\* strings.IndexFunc(t, !unicode.IsLetter): 1-based, 0 when every character is a letter
IndexNonLetter(t) ==
    IF \E i \in 1..Len(t) : ~IsLetter(t[i])
    THEN CHOOSE i \in 1..Len(t) : ~IsLetter(t[i]) /\ \A j \in 1..(i - 1) : IsLetter(t[j])
    ELSE 0

\* all orders in which the Go runtime may iterate over a map with key set S
Orders(S) ==
    {o \in [1..Cardinality(S) -> S] : \A i, j \in 1..Cardinality(S) : o[i] = o[j] => i = j}

----------------------------------------------------------------------------
(* Field keys and framing tokens                                           *)

kN == <<"N">>
kFN == <<"F", "N">>
kTEL == <<"T", "E", "L">>
kHELLO == <<"H", "E", "L", "L", "O">>
kVERSION == <<"V", "E", "R", "S", "I", "O", "N">>
kBEGIN == <<"B", "E", "G", "I", "N">>
kSORT == <<"S", "O", "R", "T">>
kSORT_STRING == <<"S", "O", "R", "T", "_", "S", "T", "R", "I", "N", "G">>
tagRequired == <<"r", "e", "q", "u", "i", "r", "e", "d">>

expectedHeader == <<"B", "E", "G", "I", "N", ":", "V", "C", "A", "R", "D">>
expectedFooter == <<"E", "N", "D", ":", "V", "C", "A", "R", "D">>

V40 == <<"4", ".", "0">>
V30 == <<"3", ".", "0">>

----------------------------------------------------------------------------
(* Errors                                                                  *)

\* the nil error
NoErr == [kind |-> "nil", what |-> "", name |-> <<>>, path |-> <<>>]

\* vCardErrf: an error wrapping ErrVCard
vCardErrf(what, name) == [kind |-> "ErrVCard", what |-> what, name |-> name, path |-> <<>>]

\* parsingErrf: an error wrapping ErrParsing
parsingErrf(what, name) == [kind |-> "ErrParsing", what |-> what, name |-> name, path |-> <<>>]

\* leftTokensErrf: an error wrapping ErrLeftoverTokens
leftTokensErrf(what) == [kind |-> "ErrLeftoverTokens", what |-> what, name |-> <<>>, path |-> <<>>]

\* errors.Is(err, ErrVCard), errors.Is(err, ErrParsing), errors.Is(err, ErrLeftoverTokens)
IsErrVCard(err) == err.kind \in {"ErrVCard", "ErrParsing", "ErrLeftoverTokens"}
IsErrParsing(err) == err.kind \in {"ErrParsing", "ErrLeftoverTokens"}
IsErrLeftoverTokens(err) == err.kind = "ErrLeftoverTokens"

----------------------------------------------------------------------------
(* Schema                                                                  *)

\* a struct field descriptor (reflect.StructField): name, `vCard` tag, kind
Fld(name, tag, kind) == [name |-> name, tag |-> tag, kind |-> kind]

\* every field is taken as required
SchemaFor_allRequired(typ, version) ==
    [version |-> version,
     fields |-> {typ[i].name : i \in 1..Len(typ)},
     requiredFields |-> {typ[i].name : i \in 1..Len(typ)}]

\* SchemaFor[T](version), T a struct type given by its field descriptors
SchemaFor(typ, version) ==
    [version |-> version,
     fields |-> {typ[i].name : i \in 1..Len(typ)},
     requiredFields |->
         {typ[i].name : i \in {j \in 1..Len(typ) : HasSubstr(typ[j].tag, tagRequired)}}]

----------------------------------------------------------------------------
(* Go values handed to the Encoder                                         *)
(*   struct:  [kind |-> "struct", fields |-> <<[name, tag, kind, val], ..>>]*)
(*   map:     [kind |-> "map", keyKind, elemKind, elemImpl, entries]        *)
(*   slice:   [kind |-> "slice", elemKind, elems]                           *)
(*   val of a string field / entry: the string; of a struct- or interface-  *)
(*   kinded one: a Dyn record saying whether the dynamic value implements   *)
(*   VCardFieldMarshaler and what MarshalVCardField returns.                *)

FV(name, tag, kind, val) == [name |-> name, tag |-> tag, kind |-> kind, val |-> val]

Struct(fields) == [kind |-> "struct", fields |-> fields]

Map(keyKind, elemKind, elemImpl, entries) ==
    [kind |-> "map", keyKind |-> keyKind, elemKind |-> elemKind, elemImpl |-> elemImpl,
     entries |-> entries]

Slice(elemKind, elems) == [kind |-> "slice", elemKind |-> elemKind, elems |-> elems]

Dyn(marshaler, out, fails) == [marshaler |-> marshaler, out |-> out, fails |-> fails]

\* the result of an encode function: the buffer and the error it returns
Res(b, err) == [b |-> b, err |-> err]

----------------------------------------------------------------------------
(* Encoder                                                                 *)

\* NewEncoder(w)
NewEncoder == [smartStrings |-> TRUE, newlineSequence |-> CRLF]

\* encodeRecordHeader: BEGIN:VCARD, VERSION:<version>
encodeRecordHeader(e, b, ctx) ==
    b \o expectedHeader \o e.newlineSequence
      \o kVERSION \o <<":">> \o ctx.schema.version \o e.newlineSequence

\* a footer whose line terminator is hard-coded
encodeRecordFooter_fixedCRLF(e, b, ctx) == b \o expectedFooter \o CRLF

\* encodeRecordFooter: END:VCARD
encodeRecordFooter(e, b, ctx) == b \o expectedFooter \o e.newlineSequence

\* the separator is added unless the value starts with one
mapStringLine_prefix(e, k, s) ==
    IF ~e.smartStrings THEN k \o s \o e.newlineSequence
    ELSE IF s # <<>> /\ Head(s) = ":" THEN k \o s \o e.newlineSequence
         ELSE k \o <<":">> \o s \o e.newlineSequence

\* encodeMap, string values: the line appended for entry k -> s
mapStringLine(e, k, s) ==
    IF ~e.smartStrings THEN k \o s \o e.newlineSequence
    ELSE IF Contains(s, ":") THEN k \o s \o e.newlineSequence
         ELSE k \o <<":">> \o s \o e.newlineSequence

\* encodeMap, case reflect.String: the loop over the map in iteration order ks
RECURSIVE mapStringLoop(_, _, _, _, _)
mapStringLoop(e, ks, m, ctx, buf) ==
    IF ks = <<>> THEN Res(buf, NoErr)
    ELSE LET k == Head(ks)
         IN  IF k \notin ctx.schema.fields
             THEN mapStringLoop(e, Tail(ks), m, ctx, buf)
             ELSE mapStringLoop(e, Tail(ks), m, ctx, buf \o mapStringLine(e, k, m[k]))

\* encodeMap, case reflect.Struct with a value type implementing VCardFieldMarshaler
RECURSIVE mapStructLoop(_, _, _, _, _, _)
mapStructLoop(e, b, ks, m, ctx, buf) ==
    IF ks = <<>> THEN Res(buf, NoErr)
    ELSE LET k == Head(ks)
         IN  IF k \notin ctx.schema.fields
             THEN mapStructLoop(e, b, Tail(ks), m, ctx, buf)
             ELSE IF m[k].fails
                  THEN Res(b, vCardErrf("error during marshaling value for a key", k))
                  ELSE mapStructLoop(e, b, Tail(ks), m, ctx,
                                     buf \o k \o m[k].out \o e.newlineSequence)

\* encodeMap, case reflect.Interface
RECURSIVE mapInterfaceLoop(_, _, _, _, _, _)
mapInterfaceLoop(e, b, ks, m, ctx, buf) ==
    IF ks = <<>> THEN Res(buf, NoErr)
    ELSE LET k == Head(ks)
         IN  IF ~m[k].marshaler
             THEN Res(b, vCardErrf("map value does not implement VCardFieldMarshaler", k))
             ELSE IF m[k].fails
                  THEN Res(b, vCardErrf("error during marshaling value for a key", k))
                  ELSE mapInterfaceLoop(e, b, Tail(ks), m, ctx,
                                        buf \o k \o m[k].out \o e.newlineSequence)

\* encodeMap, the switch on the value kind, for iteration order ks
mapBody(e, b, ks, ma, ctx, buf) ==
    CASE ma.elemKind = "string" -> mapStringLoop(e, ks, ma.entries, ctx, buf)
      [] ma.elemKind = "struct" ->
            IF ma.elemImpl THEN mapStructLoop(e, b, ks, ma.entries, ctx, buf)
            ELSE Res(b, vCardErrf("map value is a struct which does not implement VCardFieldMarshaler", <<>>))
      [] ma.elemKind = "interface" -> mapInterfaceLoop(e, b, ks, ma.entries, ctx, buf)
      [] OTHER -> Res(b, vCardErrf("type is not supported as a map value", <<>>))

\* encodeMap: every result the call can return
encodeMap(e, b, ma, ctx) ==
    IF ma.keyKind # "string"
    THEN {Res(<<>>, vCardErrf("type is not supported as a map key", <<>>))}
    ELSE LET missing == {req \in ctx.schema.requiredFields : req \notin DOMAIN ma.entries}
             buf == encodeRecordHeader(e, <<>>, ctx)
         IN  IF missing # {}
             THEN {Res(b, vCardErrf("map does not contain field required by the schema", req)) :
                      req \in missing}
             ELSE IF DOMAIN ma.entries = {}
                  THEN {Res(b \o encodeRecordFooter(e, buf, ctx), NoErr)}
                  ELSE {LET r == mapBody(e, b, ks, ma, ctx, buf)
                        IN  IF r.err # NoErr THEN r
                            ELSE Res(b \o encodeRecordFooter(e, r.b, ctx), NoErr) :
                           ks \in Orders(DOMAIN ma.entries)}

\* encodeStruct: the effective key of a field (its `vCard` tag if set, else its name)
vCardName(fieldDesc) == IF fieldDesc.tag # <<>> THEN fieldDesc.tag ELSE fieldDesc.name

\* encodeStruct: the required-field check passes for req
structHasRequired(struc, req) ==
    LET byName == IF \E i \in 1..Len(struc.fields) : struc.fields[i].name = req
                  THEN req ELSE <<>>
        fieldName == IF \E i \in 1..Len(struc.fields) : struc.fields[i].tag = req
                     THEN (CHOOSE n \in {struc.fields[i].name : i \in 1..Len(struc.fields)} :
                              \E i \in 1..Len(struc.fields) :
                                  /\ struc.fields[i].tag = req
                                  /\ struc.fields[i].name = n)
                     ELSE byName
    IN  fieldName # <<>>

\* encodeStruct, case reflect.String: the line appended for a string field
structStringLine(e, name, s) ==
    IF ~e.smartStrings THEN name \o s \o e.newlineSequence
    ELSE IF Contains(s, ":") THEN name \o s \o e.newlineSequence
         ELSE name \o <<":">> \o s \o e.newlineSequence

\* encodeStruct: the loop over the fields, from field i on
RECURSIVE structLoop(_, _, _, _, _, _)
structLoop(e, b, struc, ctx, i, buf) ==
    IF i > Len(struc.fields) THEN Res(buf, NoErr)
    ELSE LET f == struc.fields[i]
             name == vCardName(f)
         IN  IF name \notin ctx.schema.fields
             THEN structLoop(e, b, struc, ctx, i + 1, buf)
             ELSE CASE f.kind = "string" ->
                         structLoop(e, b, struc, ctx, i + 1,
                                    buf \o structStringLine(e, name, f.val))
                    [] f.kind \in {"struct", "interface"} ->
                         IF ~f.val.marshaler
                         THEN Res(b, vCardErrf("field does not implement VCardFieldMarshaler", f.name))
                         ELSE IF f.val.fails
                              THEN Res(b, vCardErrf("error during marshaling field", f.name))
                              ELSE structLoop(e, b, struc, ctx, i + 1,
                                              buf \o name \o f.val.out \o e.newlineSequence)
                    [] OTHER -> Res(b, vCardErrf("field has unsupported type", f.name))

\* encodeStruct: every result the call can return
encodeStruct(e, b, struc, ctx) ==
    LET missing == {req \in ctx.schema.requiredFields : ~structHasRequired(struc, req)}
        buf == encodeRecordHeader(e, <<>>, ctx)
    IN  IF missing # {}
        THEN {Res(b, vCardErrf("struct does not contain field required by the schema", req)) :
                 req \in missing}
        ELSE IF Len(struc.fields) = 0
             THEN {Res(b \o encodeRecordFooter(e, buf, ctx), NoErr)}
             ELSE LET r == structLoop(e, b, struc, ctx, 1, buf)
                  IN  IF r.err # NoErr THEN {r}
                      ELSE {Res(b \o encodeRecordFooter(e, r.b, ctx), NoErr)}

\* encodeSlice wraps the error of member idx
sliceMemberErr(idx, err) == [err EXCEPT !.path = <<idx>> \o err.path]

RECURSIVE encode(_, _, _, _)
RECURSIVE sliceLoop(_, _, _, _, _)

\* every member is encoded into a fresh buffer that replaces the intermediate one
sliceLoop_overwrite(e, slice, ctx, i, buf) ==
    IF i > Len(slice.elems) THEN {Res(buf, NoErr)}
    ELSE LET elem == slice.elems[i]
             rs == CASE slice.elemKind = "map" -> encodeMap(e, <<>>, elem, ctx)
                     [] slice.elemKind = "struct" -> encodeStruct(e, <<>>, elem, ctx)
                     [] OTHER -> encode(e, <<>>, elem, ctx)
         IN  UNION {IF r.err # NoErr
                    THEN {Res(buf, sliceMemberErr(i - 1, r.err))}
                    ELSE sliceLoop(e, slice, ctx, i + 1, r.b) : r \in rs}

\* encodeSlice: the loop over the members, from member i on, into the intermediate buffer
sliceLoop(e, slice, ctx, i, buf) ==
    IF i > Len(slice.elems) THEN {Res(buf, NoErr)}
    ELSE LET elem == slice.elems[i]
             rs == CASE slice.elemKind = "map" -> encodeMap(e, buf, elem, ctx)
                     [] slice.elemKind = "struct" -> encodeStruct(e, buf, elem, ctx)
                     [] OTHER -> encode(e, buf, elem, ctx)
         IN  UNION {IF r.err # NoErr
                    THEN {Res(buf, sliceMemberErr(i - 1, r.err))}
                    ELSE sliceLoop(e, slice, ctx, i + 1, r.b) : r \in rs}

\* encodeSlice: every result the call can return
encodeSlice(e, b, slice, ctx) ==
    IF Len(slice.elems) = 0 THEN {Res(b, NoErr)}
    ELSE IF slice.elemKind \notin {"map", "struct", "interface"}
         THEN {Res(b, vCardErrf("unable to encode slice of type", <<>>))}
         ELSE {IF r.err # NoErr THEN Res(b, r.err) ELSE Res(b \o r.b, NoErr) :
                  r \in sliceLoop(e, slice, ctx, 1, <<>>)}

\* encode: dispatch on the kind of the value
encode(e, b, val, ctx) ==
    CASE val.kind = "map" -> encodeMap(e, b, val, ctx)
      [] val.kind = "struct" -> encodeStruct(e, b, val, ctx)
      [] val.kind = "slice" -> encodeSlice(e, b, val, ctx)
      [] OTHER -> {Res(b, vCardErrf("unable to encode type", <<>>))}

\* EncodeSchema: the results of the call, before the write to the sink
EncodeSchemaResults(e, val, sch) ==
    IF val.kind = "nil"
    THEN {Res(<<>>, vCardErrf("cannot encode a nil interface", <<>>))}
    ELSE encode(e, <<>>, val, [schema |-> sch])

\* the record header reaches the sink before the record is validated
EncodeSchemaWrite_eager(e, r, sch) ==
    IF r.err # NoErr THEN encodeRecordHeader(e, <<>>, [schema |-> sch]) ELSE r.b

\* EncodeSchema: the bytes handed to the sink's Write for result r (none on an error)
EncodeSchemaWrite(e, r, sch) == IF r.err # NoErr THEN <<>> ELSE r.b

\* MarshalSchema: the byte slice returned for result r of EncodeSchema on a fresh buffer
MarshalSchemaBytes(r, buf) == IF r.err # NoErr THEN <<>> ELSE buf

----------------------------------------------------------------------------
(* Inputs of the encoder: schemas and values                               *)

\* string values: empty, plain, trailing space, leading separator, parameterised
sEmpty == <<>>
sA == <<"a">>
sASp == <<"a", " ">>
sColonA == <<":", "a">>
sParam == <<";", "T", ":", "5">>

Strs == {sEmpty, sA, sASp, sColonA, sParam}
FewStrs == {sA, sColonA}

\* a schema in the style of the default 4.0 schema: FN required
SchemaV4 ==
    SchemaFor(<<Fld(kFN, tagRequired, "string"), Fld(kN, <<>>, "string"),
                Fld(kTEL, <<>>, "string"), Fld(kSORT_STRING, <<>>, "string"),
                Fld(kVERSION, <<>>, "string")>>, V40)

\* TelRequiredSchema of the tests: N and TEL required
TelRequiredSchema ==
    SchemaFor(<<Fld(kN, tagRequired, "string"), Fld(kTEL, tagRequired, "string")>>, V40)

\* EmptySchema of the tests
EmptySchema == SchemaFor(<<>>, V40)

EncSchemas == {SchemaV4, TelRequiredSchema, EmptySchema}

\* dynamic values of struct- and interface-kinded fields and map values
okMarshaler == Dyn(TRUE, <<";", ";", "a", ";", ";">>, FALSE)
failingMarshaler == Dyn(TRUE, <<>>, TRUE)
notMarshaler == Dyn(FALSE, <<>>, FALSE)

Dyns == {okMarshaler, failingMarshaler, notMarshaler}

StringUser(n, fn) == Struct(<<FV(kN, <<>>, "string", n), FV(kFN, <<>>, "string", fn)>>)

TelUser(n, tel) == Struct(<<FV(kN, <<>>, "string", n), FV(kTEL, <<>>, "string", tel)>>)

\* a struct whose field TEL is renamed to HELLO by its tag
RenamedUser(n, tel) == Struct(<<FV(kN, <<>>, "string", n), FV(kTEL, kHELLO, "string", tel)>>)

\* a struct whose fields get their keys from rename tags
TagsUser(n, fn) ==
    Struct(<<FV(<<"a">>, kN, "string", n), FV(<<"b">>, kFN, "string", fn)>>)

MoreStringUser(fn, hello) ==
    Struct(<<FV(kFN, <<>>, "string", fn), FV(kHELLO, <<>>, "string", hello)>>)

SortUser(fn, s) ==
    Struct(<<FV(kFN, <<>>, "string", fn), FV(kSORT_STRING, <<>>, "string", s)>>)

VersionUser(fn, ver) ==
    Struct(<<FV(kFN, <<>>, "string", fn), FV(kVERSION, <<>>, "string", ver)>>)

CustomUser(kind, n, fn) == Struct(<<FV(kN, <<>>, kind, n), FV(kFN, <<>>, "string", fn)>>)

UnsupportedUser == Struct(<<FV(kFN, <<>>, "string", sA), FV(kN, <<>>, "int", 0)>>)

Empty == Struct(<<>>)

EncStructs ==
    {StringUser(n, fn) : n \in Strs, fn \in Strs}
    \cup {TelUser(n, tel) : n \in FewStrs, tel \in {sA, sParam}}
    \cup {RenamedUser(n, tel) : n \in FewStrs, tel \in FewStrs}
    \cup {TagsUser(n, fn) : n \in FewStrs, fn \in FewStrs}
    \cup {MoreStringUser(fn, h) : fn \in FewStrs, h \in FewStrs}
    \cup {SortUser(fn, s) : fn \in {sA}, s \in FewStrs}
    \cup {VersionUser(fn, ver) : fn \in {sA}, ver \in {sA, V40}}
    \cup {CustomUser(kind, d, fn) : kind \in {"struct", "interface"}, d \in Dyns, fn \in {sA}}
    \cup {UnsupportedUser, Empty}

\* key sets of the maps handed to the encoder
MapKeySets == {{}, {kFN}, {kN, kFN}, {kN, kTEL}, {kFN, kHELLO}}

StringMaps == UNION {{Map("string", "string", FALSE, m) : m \in [ks -> FewStrs \cup {sParam}]} :
                        ks \in MapKeySets}

\* map[string]T, T a struct type implementing VCardFieldMarshaler
MarshalerMaps ==
    UNION {{Map("string", "struct", TRUE, m) : m \in [ks -> {okMarshaler, failingMarshaler}]} :
              ks \in {{kFN}, {kFN, kHELLO}}}

\* map[string]any and map[string]VCardFieldMarshaler
InterfaceMaps ==
    UNION {{Map("string", "interface", FALSE, m) : m \in [ks -> Dyns]} :
              ks \in {{kFN}, {kFN, kHELLO}}}

BadMaps ==
    {Map("int", "string", FALSE, [k \in {kFN} |-> sA]),
     Map("string", "int", FALSE, [k \in {kFN} |-> 0]),
     Map("string", "struct", FALSE, [k \in {kFN} |-> notMarshaler])}

EncMaps == StringMaps \cup MarshalerMaps \cup InterfaceMaps \cup BadMaps

\* sequences over S of length at most n
RECURSIVE SeqsUpTo(_, _)
SeqsUpTo(S, n) ==
    IF n = 0 THEN {<<>>}
    ELSE LET shorter == SeqsUpTo(S, n - 1)
         IN  shorter \cup {Append(q, x) : q \in {t \in shorter : Len(t) = n - 1}, x \in S}

SliceStructElems == {StringUser(sA, sA), MoreStringUser(sColonA, sA), StringUser(sA, sParam),
                     CustomUser("struct", failingMarshaler, sA)}

SliceMapElems ==
    {Map("string", "string", FALSE, [k \in {kFN} |-> sA]),
     Map("string", "string", FALSE, [k \in {kN, kFN} |-> IF k = kN THEN sColonA ELSE sA]),
     Map("string", "string", FALSE, [k \in {kN} |-> sA])}

EncSlices ==
    {Slice("struct", q) : q \in SeqsUpTo(SliceStructElems, MaxSlice)}
    \cup {Slice("map", q) : q \in SeqsUpTo(SliceMapElems, MaxSlice) \ {<<>>}}
    \cup {Slice("interface", <<[kind |-> "interface", dyn |-> StringUser(sA, sA)]>>),
          Slice("int", <<[kind |-> "int"]>>)}

EncValues == EncStructs \cup EncMaps \cup EncSlices \cup {[kind |-> "nil"], [kind |-> "int"]}

Newlines == {CRLF, LF}

----------------------------------------------------------------------------
(* Encoder operations                                                      *)

NoCall == [op |-> "none"]

\* Encoder.SetSmartStrings
EncSetSmartStrings ==
    /\ \E b \in BOOLEAN : enc' = [enc EXCEPT !.smartStrings = b]
    /\ UNCHANGED <<w, writes, v, schema, encCall, encRet>>
    /\ UNCHANGED decVars

\* Encoder.SetNewlineSequence
SetNewlineSequence ==
    /\ \E seq \in Newlines : enc' = [enc EXCEPT !.newlineSequence = seq]
    /\ UNCHANGED <<w, writes, v, schema, encCall, encRet>>
    /\ UNCHANGED decVars

\* Encoder.EncodeSchema(v, schema)
EncodeSchema ==
    /\ writes < MaxEncodes
    /\ \E r \in EncodeSchemaResults(enc, v, schema) :
          /\ w' = w \o EncodeSchemaWrite(enc, r, schema)
          /\ writes' = IF r.err = NoErr THEN writes + 1 ELSE writes
          /\ encCall' = [op |-> "EncodeSchema", e |-> enc, wBefore |-> w]
          /\ encRet' = [err |-> r.err, bytes |-> EncodeSchemaWrite(enc, r, schema)]
    /\ UNCHANGED <<enc, v, schema>>
    /\ UNCHANGED decVars

\* MarshalSchema(v, schema): a fresh Encoder on a fresh buffer
MarshalSchema ==
    /\ \E r \in EncodeSchemaResults(NewEncoder, v, schema) :
          /\ encCall' = [op |-> "MarshalSchema", e |-> NewEncoder, wBefore |-> w]
          /\ encRet' = [err |-> r.err,
                        bytes |-> MarshalSchemaBytes(r, EncodeSchemaWrite(NewEncoder, r, schema))]
    /\ UNCHANGED <<enc, w, writes, v, schema>>
    /\ UNCHANGED decVars

NoDecoder == [smartStrings |-> TRUE, schemas |-> <<>>, r |-> <<>>]

InitEnc ==
    /\ enc = NewEncoder
    /\ w = <<>>
    /\ writes = 0
    /\ v \in EncValues
    /\ schema \in EncSchemas
    /\ encCall = NoCall
    /\ encRet = [err |-> NoErr, bytes |-> <<>>]
    /\ dec = NoDecoder
    /\ target = [kind |-> "nil"]
    /\ decCall = NoCall
    /\ decRet = NoErr

NextEnc == EncSetSmartStrings \/ SetNewlineSequence \/ EncodeSchema \/ MarshalSchema

Spec == InitEnc /\ [][NextEnc]_vars

----------------------------------------------------------------------------
(* Decoder                                                                 *)
(*   a target struct has the shape of an encoded struct; the val of a      *)
(*   struct- or interface-kinded field is a UDyn record saying whether the  *)
(*   dynamic value implements VCardFieldUnmarshaler and whether its         *)
(*   UnmarshalVCardField rejects data that holds no `:`.                    *)
(*   a target map: [kind |-> "map", keyKind, elemKind, elemType, isNil,     *)
(*   entries], elemType the UDyn of the map's value type.                   *)

UDyn(unmarshaler, strict) == [unmarshaler |-> unmarshaler, strict |-> strict]

TargetMap(keyKind, elemKind, elemType, isNil, entries) ==
    [kind |-> "map", keyKind |-> keyKind, elemKind |-> elemKind, elemType |-> elemType,
     isNil |-> isNil, entries |-> entries]

\* the result of a decode function: the text it returns, the error, the target afterwards
DRes(s, err, val) == [s |-> s, err |-> err, val |-> val]

\* UnmarshalVCardField(data) of a value described by u returns an error
unmarshalFails(u, data) == u.strict /\ ~Contains(data, ":")

\* reflect.StructField.IsExported, for CanSet
IsExported(name) == name # <<>> /\ Head(name) \in {"A", "B", "C", "D", "E", "F", "G", "H", "I",
                                                   "L", "N", "O", "R", "S", "T", "V"}

\* m[key] = value on a Go map
MapSet(m, key, value) == [k \in DOMAIN m \cup {key} |-> IF k = key THEN value ELSE m[k]]

EmptyMap == [k \in {} |-> <<>>]

RECURSIVE newDecoderLoop(_, _, _)
\* a later schema replaces an earlier one of the same version
newDecoderLoop_overwrite(schemas, i, m) ==
    IF i > Len(schemas) THEN [m |-> m, panics |-> FALSE]
    ELSE newDecoderLoop(schemas, i + 1, MapSet(m, schemas[i].version, schemas[i]))

\* NewDecoder: the loop that registers the schemas, from schema i on: [m, panics]
newDecoderLoop(schemas, i, m) ==
    IF i > Len(schemas) THEN [m |-> m, panics |-> FALSE]
    ELSE IF schemas[i].version \in DOMAIN m THEN [m |-> m, panics |-> TRUE]
         ELSE newDecoderLoop(schemas, i + 1, MapSet(m, schemas[i].version, schemas[i]))

\* NewDecoder(r, schemas): the Decoder returned when the loop does not panic
NewDecoder(r, schemas) ==
    [smartStrings |-> TRUE,
     schemas |-> newDecoderLoop(schemas, 1, EmptyMap).m,
     r |-> r]

\* a header line has to be the token followed by "\n"
decodeRecordHeader_exact(s) ==
    IF s = <<>> THEN [s |-> s, err |-> parsingErrf("unexpected EOF", <<>>)]
    ELSE LET line == SubSeq(s, 1, FirstLineLen(s))
         IN  IF line # expectedHeader \o LF
             THEN [s |-> s, err |-> parsingErrf("expected header", line)]
             ELSE [s |-> SubSeq(s, Len(line) + 1, Len(s)), err |-> NoErr]

\* decodeRecordHeader: [s, err]
decodeRecordHeader(s) ==
    IF s = <<>> THEN [s |-> s, err |-> parsingErrf("unexpected EOF", <<>>)]
    ELSE LET line == SubSeq(s, 1, FirstLineLen(s))
         IN  IF TrimSpace(line) # expectedHeader
             THEN [s |-> s, err |-> parsingErrf("expected header", line)]
             ELSE [s |-> SubSeq(s, Len(line) + 1, Len(s)), err |-> NoErr]

\* decodeRecordFooter: [s, err]
decodeRecordFooter(s) ==
    IF s = <<>> THEN [s |-> s, err |-> parsingErrf("unexpected EOF", <<>>)]
    ELSE LET line == SubSeq(s, 1, FirstLineLen(s))
         IN  IF TrimSpace(line) # expectedFooter
             THEN [s |-> s, err |-> parsingErrf("expected footer", line)]
             ELSE [s |-> SubSeq(s, Len(line) + 1, Len(s)), err |-> NoErr]

\* decodeVCardFieldsIntoMap: the loop over the lines, from line i on: [m, offset, err]
RECURSIVE fieldsLoop(_, _, _, _)
\* a key keeps the value of its first line
fieldsLoop_firstWins(lines, i, m, offset) ==
    IF i > Len(lines) THEN [m |-> m, offset |-> offset, err |-> NoErr]
    ELSE LET line == lines[i]
             trimmed == TrimSpace(line)
             idx == IndexNonLetter(trimmed)
             key == SubSeq(trimmed, 1, idx - 1)
             value == SubSeq(trimmed, idx, Len(trimmed))
             parseErr == parsingErrf("unable to decode line", line)
         IN  IF trimmed = expectedFooter THEN [m |-> m, offset |-> offset, err |-> NoErr]
             ELSE IF idx = 0
                  THEN [m |-> m, offset |-> offset + Len(line), err |-> parseErr]
                  ELSE IF key = <<>> \/ value = <<>>
                       THEN [m |-> m, offset |-> offset + Len(line), err |-> parseErr]
                       ELSE fieldsLoop(lines, i + 1,
                                       IF key \in DOMAIN m THEN m ELSE MapSet(m, key, value),
                                       offset + Len(line))

\* the key ends at the first `:` of the line
fieldsLoop_colon(lines, i, m, offset) ==
    IF i > Len(lines) THEN [m |-> m, offset |-> offset, err |-> NoErr]
    ELSE LET line == lines[i]
             trimmed == TrimSpace(line)
             idx == IF Contains(trimmed, ":")
                    THEN CHOOSE n \in 1..Len(trimmed) :
                            trimmed[n] = ":" /\ \A j \in 1..(n - 1) : trimmed[j] # ":"
                    ELSE 0
             key == SubSeq(trimmed, 1, idx - 1)
             value == SubSeq(trimmed, idx, Len(trimmed))
             parseErr == parsingErrf("unable to decode line", line)
         IN  IF trimmed = expectedFooter THEN [m |-> m, offset |-> offset, err |-> NoErr]
             ELSE IF idx = 0
                  THEN [m |-> m, offset |-> offset + Len(line), err |-> parseErr]
                  ELSE IF key = <<>> \/ value = <<>>
                       THEN [m |-> m, offset |-> offset + Len(line), err |-> parseErr]
                       ELSE fieldsLoop(lines, i + 1, MapSet(m, key, value), offset + Len(line))

fieldsLoop(lines, i, m, offset) ==
    IF i > Len(lines) THEN [m |-> m, offset |-> offset, err |-> NoErr]
    ELSE LET line == lines[i]
             trimmed == TrimSpace(line)
             idx == IndexNonLetter(trimmed)
             key == SubSeq(trimmed, 1, idx - 1)
             value == SubSeq(trimmed, idx, Len(trimmed))
             parseErr == parsingErrf("unable to decode line", line)
         IN  IF trimmed = expectedFooter THEN [m |-> m, offset |-> offset, err |-> NoErr]
             ELSE IF idx = 0
                  THEN [m |-> m, offset |-> offset + Len(line), err |-> parseErr]
                  ELSE IF key = <<>> \/ value = <<>>
                       THEN [m |-> m, offset |-> offset + Len(line), err |-> parseErr]
                       ELSE fieldsLoop(lines, i + 1, MapSet(m, key, value), offset + Len(line))

\* the required-field check is left out
missingRequired_none(sch, m) == {}

\* decodeVCardFieldsIntoMap: the required fields of the schema the document lacks
missingRequired(sch, m) == {req \in sch.requiredFields : req \notin DOMAIN m}

NoSchema == [version |-> <<>>, fields |-> {}, requiredFields |-> {}]

\* a record whose version is missing or unregistered is validated against no schema
decodeVCardFieldsIntoMap_anyVersion(d, s) ==
    LET l == fieldsLoop(Lines(s), 1, EmptyMap, 0)
        rest == SubSeq(s, l.offset + 1, Len(s))
        ver == Tail(l.m[kVERSION])
        sch == d.schemas[ver]
        missing == missingRequired(sch, l.m)
    IN  IF l.err # NoErr
        THEN {[m |-> l.m, schema |-> NoSchema, s |-> s, err |-> l.err]}
        ELSE IF kVERSION \notin DOMAIN l.m \/ ver \notin DOMAIN d.schemas
             THEN {[m |-> l.m, schema |-> NoSchema, s |-> rest, err |-> NoErr]}
             ELSE IF missing # {}
                  THEN {[m |-> l.m, schema |-> sch, s |-> rest,
                         err |-> parsingErrf("document does not contain a required field", req)] :
                           req \in missing}
                  ELSE {[m |-> l.m, schema |-> sch, s |-> rest, err |-> NoErr]}

\* decodeVCardFieldsIntoMap: every result [m, schema, s, err] the call can return
decodeVCardFieldsIntoMap(d, s) ==
    LET l == fieldsLoop(Lines(s), 1, EmptyMap, 0)
        rest == SubSeq(s, l.offset + 1, Len(s))
        ver == Tail(l.m[kVERSION])
        sch == d.schemas[ver]
        missing == missingRequired(sch, l.m)
    IN  IF l.err # NoErr
        THEN {[m |-> l.m, schema |-> NoSchema, s |-> s, err |-> l.err]}
        ELSE IF kVERSION \notin DOMAIN l.m
             THEN {[m |-> l.m, schema |-> NoSchema, s |-> rest,
                    err |-> parsingErrf("field was not found", kVERSION)]}
             ELSE IF ver \notin DOMAIN d.schemas
                  THEN {[m |-> l.m, schema |-> NoSchema, s |-> rest,
                         err |-> parsingErrf("schema for version was not provided", ver)]}
                  ELSE IF missing # {}
                       THEN {[m |-> l.m, schema |-> sch, s |-> rest,
                              err |-> parsingErrf("document does not contain a required field", req)] :
                                req \in missing}
                       ELSE {[m |-> l.m, schema |-> sch, s |-> rest, err |-> NoErr]}

\* fillMap, case reflect.Struct: the loop over schema.fields in iteration order ks: [ma, err]
RECURSIVE fillMapStructLoop(_, _, _)
fillMapStructLoop(ks, ma, m) ==
    IF ks = <<>> THEN [ma |-> ma, err |-> NoErr]
    ELSE LET field == Head(ks)
         IN  IF field \notin DOMAIN m THEN fillMapStructLoop(Tail(ks), ma, m)
             ELSE IF unmarshalFails(ma.elemType, m[field])
                  THEN [ma |-> ma, err |-> vCardErrf("error while unmarshaling a value for a key", field)]
                  ELSE fillMapStructLoop(Tail(ks),
                           [ma EXCEPT !.entries = MapSet(ma.entries, field, ma.elemType)], m)

\* fillMap, case reflect.Interface: reflect.Zero of an interface type implements nothing
RECURSIVE fillMapInterfaceLoop(_, _, _)
fillMapInterfaceLoop(ks, ma, m) ==
    IF ks = <<>> THEN [ma |-> ma, err |-> NoErr]
    ELSE LET field == Head(ks)
         IN  IF field \notin DOMAIN m THEN fillMapInterfaceLoop(Tail(ks), ma, m)
             ELSE [ma |-> ma,
                   err |-> vCardErrf("unable to decode a value for a map key: not a VCardFieldUnmarshaler", <<>>)]

\* every entry of the document is copied, whatever the schema's field set
fillMapStrings_all(m, sch) == m

\* fillMap, case reflect.String: newMap, the entries of m under the schema's fields
fillMapStrings(m, sch) == [k \in sch.fields \cap DOMAIN m |-> m[k]]

\* the error fillMap returns after its switch
fillMapFinalErr ==
    vCardErrf("unable to decode into a map where value has unsupported type", <<>>)

\* fillMap: every result [ma, err] the call can return (the loops skip the schema fields
\* the document lacks, so only the order of the others is enumerated)
fillMap(d, ma, m, sch) ==
    IF ma.keyKind # "string"
    THEN {[ma |-> ma, err |-> vCardErrf("unable to decode into a map where key has unsupported type", <<>>)]}
    ELSE CASE ma.elemKind = "string" ->
                 {[ma |-> [ma EXCEPT !.isNil = FALSE,
                                     !.entries = fillMapStrings(m, sch)],
                   err |-> fillMapFinalErr]}
           [] ma.elemKind = "struct" ->
                 IF ~ma.elemType.unmarshaler
                 THEN {[ma |-> ma, err |-> vCardErrf("map value type does not implement VCardFieldUnmarshaler", <<>>)]}
                 ELSE {LET r == fillMapStructLoop(ks, ma, m)
                       IN  IF r.err # NoErr THEN r ELSE [ma |-> r.ma, err |-> fillMapFinalErr] :
                          ks \in Orders(sch.fields \cap DOMAIN m)}
           [] ma.elemKind = "interface" ->
                 {LET r == fillMapInterfaceLoop(ks, ma, m)
                  IN  IF r.err # NoErr THEN r ELSE [ma |-> r.ma, err |-> fillMapFinalErr] :
                     ks \in Orders(sch.fields \cap DOMAIN m)}
           [] OTHER -> {[ma |-> ma, err |-> fillMapFinalErr]}

\* the separator is stripped whatever the smart-strings setting
structStringValue_alwaysStrip(d, serField) ==
    IF serField[1] = ":" THEN Tail(serField) ELSE serField

\* fillStruct, case reflect.String: the value stored for raw suffix serField
structStringValue(d, serField) ==
    IF ~d.smartStrings THEN serField
    ELSE IF serField[1] = ":" THEN Tail(serField) ELSE serField

\* the schema's field set is not consulted
fieldSkipped_docOnly(name, m, sch) == name \notin DOMAIN m

\* fillStruct: the field with effective key name is passed over
fieldSkipped(name, m, sch) == name \notin sch.fields \/ name \notin DOMAIN m

\* fillStruct: the loop over the fields, from field i on: [struc, err]
RECURSIVE fillStructLoop(_, _, _, _, _)
fillStructLoop(d, struc, m, sch, i) ==
    IF i > Len(struc.fields) THEN [struc |-> struc, err |-> NoErr]
    ELSE LET f == struc.fields[i]
             name == vCardName(f)
             serField == m[name]
         IN  IF fieldSkipped(name, m, sch)
             THEN fillStructLoop(d, struc, m, sch, i + 1)
             ELSE IF ~IsExported(f.name)
                  THEN [struc |-> struc, err |-> vCardErrf("unable to set a field", f.name)]
                  ELSE CASE f.kind = "string" ->
                              fillStructLoop(d,
                                  [struc EXCEPT !.fields[i].val = structStringValue(d, serField)],
                                  m, sch, i + 1)
                         [] f.kind \in {"struct", "interface"} ->
                              IF ~f.val.unmarshaler
                              THEN [struc |-> struc,
                                    err |-> vCardErrf("field does not implement VCardFieldUnmarshaler", f.name)]
                              ELSE IF unmarshalFails(f.val, serField)
                                   THEN [struc |-> struc,
                                         err |-> vCardErrf("error during unmarshaling field", f.name)]
                                   ELSE fillStructLoop(d, struc, m, sch, i + 1)
                         [] OTHER ->
                              [struc |-> struc, err |-> vCardErrf("field has unsupported type", f.name)]

\* fillStruct: every result [struc, err] the call can return
fillStruct(d, struc, m, sch) ==
    LET unmatched == {req \in sch.requiredFields :
                         ~\E i \in 1..Len(struc.fields) : vCardName(struc.fields[i]) = req}
    IN  IF unmatched # {}
        THEN {[struc |-> struc,
               err |-> vCardErrf("struct does not contain a field required by the schema", req)] :
                 req \in unmatched}
        ELSE {fillStructLoop(d, struc, m, sch, 1)}

\* the text decodeVCardFieldsIntoMap is called on, given the input and the text after the header
fieldsInput(data, afterHeader) == data

\* decodeStruct: every result the call can return
decodeStruct(d, data, struc) ==
    LET h == decodeRecordHeader(data)
    IN  IF h.err # NoErr THEN {DRes(data, h.err, struc)}
        ELSE UNION {
               IF p.err # NoErr THEN {DRes(data, p.err, struc)}
               ELSE LET ft == decodeRecordFooter(p.s)
                    IN  IF ft.err # NoErr THEN {DRes(data, ft.err, struc)}
                        ELSE {IF fl.err # NoErr THEN DRes(data, fl.err, fl.struc)
                              ELSE IF Len(TrimSpace(ft.s)) # 0
                                   THEN DRes(ft.s, leftTokensErrf("after successfully decoding a struct"),
                                             fl.struc)
                                   ELSE DRes(ft.s, NoErr, fl.struc) :
                                 fl \in fillStruct(d, struc, p.m, p.schema)} :
               p \in decodeVCardFieldsIntoMap(d, fieldsInput(data, h.s))}

\* decodeMap: every result the call can return
decodeMap(d, data, ma) ==
    IF ma.isNil
    THEN {DRes(data, vCardErrf("decoding is only possible into not-nil map", <<>>), ma)}
    ELSE LET h == decodeRecordHeader(data)
         IN  IF h.err # NoErr THEN {DRes(data, h.err, ma)}
             ELSE UNION {
                    IF p.err # NoErr THEN {DRes(data, p.err, ma)}
                    ELSE LET ft == decodeRecordFooter(p.s)
                         IN  IF ft.err # NoErr THEN {DRes(data, ft.err, ma)}
                             ELSE {IF fl.err # NoErr THEN DRes(data, fl.err, fl.ma)
                                   ELSE IF Len(TrimSpace(ft.s)) # 0
                                        THEN DRes(ft.s, leftTokensErrf("after successfully decoding a struct"),
                                                  fl.ma)
                                        ELSE DRes(ft.s, NoErr, fl.ma) :
                                      fl \in fillMap(d, ma, p.m, p.schema)} :
                    p \in decodeVCardFieldsIntoMap(d, fieldsInput(data, h.s))}

\* the error of a panic
panicErr(what) == [kind |-> "panic", what |-> what, name |-> <<>>, path |-> <<>>]

\* decode: dispatch on the kind of the pointee
decode(d, s, val) ==
    CASE val.kind = "map" -> decodeMap(d, s, val)
      [] val.kind = "struct" -> decodeStruct(d, s, val)
      [] val.kind = "slice" -> {DRes(s, panicErr("TODO: decodeSlice"), val)}
      [] val.kind = "array" -> {DRes(s, panicErr("TODO: decodeArray"), val)}
      [] OTHER -> {DRes(s, vCardErrf("unable to decode into type", <<>>), val)}

\* Decode(v) on input b: v is [kind |-> "ptr", elem |-> value], a nil pointer or a non-pointer
DecodeResults(d, b, tgt) ==
    IF tgt.kind # "ptr" /\ tgt.kind # "nilptr"
    THEN {DRes(b, vCardErrf("decoding is only possible into a pointer", <<>>), tgt)}
    ELSE IF tgt.kind = "nilptr"
         THEN {DRes(b, vCardErrf("decoding is only possible into a not-nil pointer", <<>>), tgt)}
         ELSE {DRes(r.s, r.err, [kind |-> "ptr", elem |-> r.val]) : r \in decode(d, b, tgt.elem)}

Ptr(val) == [kind |-> "ptr", elem |-> val]

----------------------------------------------------------------------------
(* Inputs of the decoder: schemas, documents and targets                   *)

\* the schemas registered with the Decoder: version 4.0 requires FN, version 3.0 requires N
DecSchemaV4 ==
    SchemaFor(<<Fld(kFN, tagRequired, "string"), Fld(kN, <<>>, "string"),
                Fld(kTEL, <<>>, "string"), Fld(kVERSION, <<>>, "string"),
                Fld(kBEGIN, <<>>, "string")>>, V40)

DecSchemaV3 ==
    SchemaFor(<<Fld(kN, tagRequired, "string"), Fld(kFN, <<>>, "string"),
                Fld(kTEL, <<>>, "string")>>, V30)

DecSchemas == <<DecSchemaV4, DecSchemaV3>>

lVersion4 == kVERSION \o <<":">> \o V40
lVersion3 == kVERSION \o <<":">> \o V30
lN == <<"N", ":", "a">>
lN2 == <<"N", ";", "b">>
lFN == <<"F", "N", ":", "a", " ", "b">>
lTEL == <<"T", "E", "L", ";", "T", ":", "5">>
lHELLO == <<"H", "E", "L", "L", "O", ":", "x">>

\* the field lines hand-written documents are made of
LineOptions == {lN, lN2, lFN, lTEL, lHELLO, lVersion3}

RECURSIVE Join(_, _)
Join(lines, eol) == IF lines = <<>> THEN <<>> ELSE Head(lines) \o eol \o Join(Tail(lines), eol)

\* a framed record: header, lines, footer, each ended by eol
Record(lines, eol) == Join(<<expectedHeader>> \o lines \o <<expectedFooter>>, eol)

\* one VERSION line followed by at most MaxLines field lines
GeneratedDocs ==
    {Record(<<ver>> \o q, LF) : ver \in {lVersion4, lVersion3}, q \in SeqsUpTo(LineOptions, MaxLines)}

\* documents with other line terminators, framing faults, malformed lines, version faults
SpecialDocs ==
    {<<>>,
     Record(<<lVersion4, lFN, lN>>, CRLF),
     <<" ">> \o Record(<<lVersion3, lN>>, <<" ", "\r", "\n">>) \o <<"\n", " ">>,
     Record(<<lVersion4, lFN>>, LF) \o Record(<<lVersion4, lFN>>, LF),
     Join(<<lVersion4, lFN, expectedFooter>>, LF),
     Join(<<expectedHeader, lVersion4, lFN>>, LF),
     Record(<<lFN, lN>>, LF),
     Record(<<kVERSION \o <<":", "9">>, lFN>>, LF),
     Record(<<kVERSION \o <<";">> \o V40, lFN>>, LF),
     Record(<<lVersion4, <<>>, lFN>>, LF),
     Record(<<lVersion4, lFN, <<"N">>>>, LF),
     Record(<<lVersion4, lFN, <<":", "a">>>>, LF),
     Record(<<lVersion4, lFN, kBEGIN \o <<":", "x">>>>, LF),
     Record(<<lVersion4, lFN, kTEL \o <<";", "5">>>>, LF)}

Docs == GeneratedDocs \cup SpecialDocs

StringTarget(n, fn) == Struct(<<FV(kN, <<>>, "string", n), FV(kFN, <<>>, "string", fn)>>)

sZ == <<"z">>

\* FN, TEL and a field HELLO that no registered schema knows, all holding "z"
HelloTarget ==
    Struct(<<FV(kFN, <<>>, "string", sZ), FV(kTEL, <<>>, "string", sZ),
             FV(kHELLO, <<>>, "string", sZ)>>)

\* exported fields bound to their keys by rename tags
TagsTarget ==
    Struct(<<FV(<<"A">>, kN, "string", <<>>), FV(<<"B">>, kFN, "string", <<>>),
             FV(kTEL, kHELLO, "string", sZ)>>)

\* declares the framing keys as fields
FramingTarget ==
    Struct(<<FV(kFN, <<>>, "string", <<>>), FV(kN, <<>>, "string", <<>>),
             FV(kVERSION, <<>>, "string", <<>>), FV(kBEGIN, <<>>, "string", sZ)>>)

\* N and FN strings followed by a TEL field of a VCardFieldUnmarshaler type that needs a `:`
CustomTarget ==
    Struct(<<FV(kN, <<>>, "string", <<>>), FV(kFN, <<>>, "string", <<>>),
             FV(kTEL, <<>>, "struct", UDyn(TRUE, TRUE))>>)

NoUnmarshaler == UDyn(FALSE, FALSE)

StringMapTarget(isNil, entries) == TargetMap("string", "string", NoUnmarshaler, isNil, entries)

\* a map[string]T, T a struct type whose UnmarshalVCardField needs a `:`
UnmarshalerMapTarget == TargetMap("string", "struct", UDyn(TRUE, TRUE), FALSE, EmptyMap)

\* the library's schema struct as the target: its FN field carries the tag `vCard:"required"`
SchemaV4Target ==
    Struct(<<FV(kFN, tagRequired, "string", <<>>), FV(kN, <<>>, "string", <<>>),
             FV(kTEL, <<>>, "string", <<>>), FV(kVERSION, <<>>, "string", <<>>)>>)

DecTargets ==
    {Ptr(StringTarget(<<>>, <<>>)), Ptr(StringTarget(sZ, sZ)), Ptr(HelloTarget),
     Ptr(TagsTarget), Ptr(FramingTarget), Ptr(CustomTarget),
     Ptr(StringMapTarget(FALSE, EmptyMap)),
     Ptr(StringMapTarget(TRUE, EmptyMap)),
     Ptr(StringMapTarget(FALSE, [k \in {kHELLO} |-> sZ])),
     Ptr(UnmarshalerMapTarget), Ptr(SchemaV4Target)}

\* arguments of Decode that are no pointer to a struct or a map
OtherTargets ==
    {StringTarget(sZ, sZ), [kind |-> "int"], [kind |-> "nilptr"], Ptr([kind |-> "int"]),
     Ptr([kind |-> "slice"]), Ptr([kind |-> "array"])}

\* the documents those arguments are tried with
FewDocs ==
    {<<>>, Record(<<lVersion4, lFN>>, LF), Record(<<lFN>>, LF)}
        \cup {Record(<<lVersion4>> \o q, LF) : q \in SeqsUpTo({lFN, lN}, MaxLines)}

----------------------------------------------------------------------------
(* Decoder operations                                                      *)

\* Decoder.SetSmartStrings
DecSetSmartStrings ==
    /\ \E b \in BOOLEAN : dec' = [dec EXCEPT !.smartStrings = b]
    /\ UNCHANGED <<target, decCall, decRet>>
    /\ UNCHANGED encVars

\* a Decode that empties the registry of schemas
Decode_dropsRegistry ==
    /\ \E r \in DecodeResults(dec, dec.r, target) :
          /\ target' = r.val
          /\ decRet' = r.err
    /\ decCall' = [op |-> "Decode", data |-> dec.r, before |-> target,
                   smartStrings |-> dec.smartStrings, schemas |-> dec.schemas]
    /\ dec' = [dec EXCEPT !.r = <<>>, !.schemas = EmptyMap]
    /\ UNCHANGED encVars

\* Decoder.Decode(v): reads the whole input, then decodes it into the target
Decode ==
    /\ \E r \in DecodeResults(dec, dec.r, target) :
          /\ target' = r.val
          /\ decRet' = r.err
    /\ decCall' = [op |-> "Decode", data |-> dec.r, before |-> target,
                   smartStrings |-> dec.smartStrings, schemas |-> dec.schemas]
    /\ dec' = [dec EXCEPT !.r = <<>>]
    /\ UNCHANGED encVars

\* the zero value of the type of struct x
ZeroOf(x) ==
    Struct([i \in 1..Len(x.fields) |->
               [x.fields[i] EXCEPT !.val = IF x.fields[i].kind = "string" THEN <<>>
                                           ELSE NoUnmarshaler]])

\* UnmarshalSchema(data, &y, {schema}) on the bytes MarshalSchema returned, y a zero value
\* of the type of v: a new Decoder over data, then Decode
UnmarshalSchema ==
    /\ encCall.op = "MarshalSchema"
    /\ encRet.err = NoErr
    /\ v.kind = "struct"
    /\ decCall.op = "none"
    /\ LET d == NewDecoder(encRet.bytes, <<schema>>)
           y == Ptr(ZeroOf(v))
       IN  /\ \E r \in DecodeResults(d, d.r, y) :
                 /\ target' = r.val
                 /\ decRet' = r.err
           /\ decCall' = [op |-> "Decode", data |-> d.r, before |-> y,
                          smartStrings |-> d.smartStrings, schemas |-> d.schemas]
           /\ dec' = [d EXCEPT !.r = <<>>]
    /\ UNCHANGED encVars

InitDec ==
    /\ enc = NewEncoder
    /\ w = <<>>
    /\ writes = 0
    /\ v = [kind |-> "nil"]
    /\ schema = EmptySchema
    /\ encCall = NoCall
    /\ encRet = [err |-> NoErr, bytes |-> <<>>]
    /\ \/ /\ \E doc \in Docs : dec = NewDecoder(doc, DecSchemas)
          /\ target \in DecTargets
       \/ /\ \E doc \in FewDocs : dec = NewDecoder(doc, DecSchemas)
          /\ target \in OtherTargets
    /\ decCall = NoCall
    /\ decRet = NoErr

NextDec == DecSetSmartStrings \/ Decode

\* a Decoder over a hand-written document, and the calls made on it
SpecDec == InitDec /\ [][NextDec]_vars

\* the schema lists NewDecoder is called with
SchemaLists == SeqsUpTo({DecSchemaV4, DecSchemaV3, EmptySchema, TelRequiredSchema}, MaxSchemas)

\* NewDecoder(r, schemas): panics, or makes the Decoder
NewDecoderCall ==
    /\ decCall.op = "none"
    /\ \E list \in SchemaLists, r \in FewDocs :
          /\ IF newDecoderLoop(list, 1, EmptyMap).panics
             THEN /\ decRet' = panicErr("cannot create a Decoder of multiple schemas with same version")
                  /\ dec' = dec
             ELSE /\ decRet' = NoErr
                  /\ dec' = NewDecoder(r, list)
          /\ decCall' = [op |-> "NewDecoder", schemas |-> list, r |-> r]
    /\ UNCHANGED target
    /\ UNCHANGED encVars

InitNew ==
    /\ enc = NewEncoder
    /\ w = <<>>
    /\ writes = 0
    /\ v = [kind |-> "nil"]
    /\ schema = EmptySchema
    /\ encCall = NoCall
    /\ encRet = [err |-> NoErr, bytes |-> <<>>]
    /\ dec = NoDecoder
    /\ target = [kind |-> "nil"]
    /\ decCall = NoCall
    /\ decRet = NoErr

NextNew == NewDecoderCall

\* the construction of a Decoder from a list of schemas
SpecNew == InitNew /\ [][NextNew]_vars

InitRT ==
    /\ InitEnc
    /\ v \in EncStructs

NextRT == MarshalSchema \/ UnmarshalSchema

\* MarshalSchema of a struct, then UnmarshalSchema of the bytes it returned
SpecRT == InitRT /\ [][NextRT]_vars

----------------------------------------------------------------------------
(* Notions the properties are stated with                                  *)

StartsWith(s, pre) == Len(s) >= Len(pre) /\ SubSeq(s, 1, Len(pre)) = pre

EndsWith(s, suf) == Len(s) >= Len(suf) /\ SubSeq(s, Len(s) - Len(suf) + 1, Len(s)) = suf

\* a value that encodes to one record
SingleRecord(x) == x.kind = "struct" \/ (x.kind = "map" /\ x.keyKind = "string")

EncCalled == encCall.op # "none"

EncOk == EncCalled /\ encRet.err = NoErr

\* the output lines between the VERSION line and the footer line
FieldLines(out) == LET L == Lines(out) IN SubSeq(L, 3, Len(L) - 1)

\* the fields of a struct / the entries of a map, as [key, kind, val]
Entries(x) ==
    IF x.kind = "struct"
    THEN {[key |-> vCardName(x.fields[i]), kind |-> x.fields[i].kind, val |-> x.fields[i].val] :
             i \in 1..Len(x.fields)}
    ELSE {[key |-> k, kind |-> x.elemKind, val |-> x.entries[k]] : k \in DOMAIN x.entries}

\* the value has a field with effective key R / an entry with key R
HasKey(x, R) == \E en \in Entries(x) : en.key = R

\* the trimmed lines of a document that precede its first END:VCARD line
RECURSIVE UpToFooter(_)
UpToFooter(ls) ==
    IF ls = <<>> \/ TrimSpace(Head(ls)) = expectedFooter THEN <<>>
    ELSE <<TrimSpace(Head(ls))>> \o UpToFooter(Tail(ls))

DocLines(doc) == UpToFooter(Lines(doc))

\* the text that follows the first END:VCARD line (all of it counts as missing if there is none)
RECURSIVE AfterFooter(_)
AfterFooter(ls) ==
    IF ls = <<>> THEN <<"?">>
    ELSE IF TrimSpace(Head(ls)) = expectedFooter THEN Join(Tail(ls), <<>>)
         ELSE AfterFooter(Tail(ls))

\* a line splits into a non-empty key of letters and a non-empty suffix
LineOK(t) == IndexNonLetter(t) > 1

KeyOfLine(t) == SubSeq(t, 1, IndexNonLetter(t) - 1)

SuffixOfLine(t) == SubSeq(t, IndexNonLetter(t), Len(t))

DocKeys(doc) == LET L == DocLines(doc) IN {KeyOfLine(L[i]) : i \in 1..Len(L)}

\* the suffix of the last line with key k
LastSuffix(doc, k) ==
    LET L == DocLines(doc)
        last == CHOOSE i \in 1..Len(L) :
                    /\ KeyOfLine(L[i]) = k
                    /\ \A j \in (i + 1)..Len(L) : KeyOfLine(L[j]) # k
    IN  SuffixOfLine(L[last])

\* the document starts with the header line and every line up to the footer splits
Parses(doc) ==
    /\ doc # <<>>
    /\ TrimSpace(Lines(doc)[1]) = expectedHeader
    /\ LET L == DocLines(doc) IN \A i \in 1..Len(L) : LineOK(L[i])

\* the document's (last) VERSION line is VERSION:<ver> for a registered version ver
SelectsSchema(doc, schemas) ==
    /\ Parses(doc)
    /\ kVERSION \in DocKeys(doc)
    /\ Head(LastSuffix(doc, kVERSION)) = ":"
    /\ Tail(LastSuffix(doc, kVERSION)) \in DOMAIN schemas

\* the schema the decoder looked up: under the version that follows the first character of
\* the VERSION suffix
UsedSchema(doc, schemas) == schemas[Tail(LastSuffix(doc, kVERSION))]

\* the decoder got as far as looking a schema up
ReachedSchema(doc, schemas) ==
    /\ Parses(doc)
    /\ kVERSION \in DocKeys(doc)
    /\ Tail(LastSuffix(doc, kVERSION)) \in DOMAIN schemas

\* a pointer to a struct / to a map that is not nil
StructTarget(t) == t.kind = "ptr" /\ t.elem.kind = "struct"
MapTarget(t) == t.kind = "ptr" /\ t.elem.kind = "map" /\ ~t.elem.isNil

Decoded == decCall.op = "Decode"

----------------------------------------------------------------------------
(* Properties                                                              *)

\* C1: a call of EncodeSchema or MarshalSchema that returns an error hands no bytes to the
\* sink, which is left as it was before the call, and MarshalSchema returns an empty slice.
C1_EncodeErrorAtomicity ==
    (EncCalled /\ encRet.err # NoErr) => (encRet.bytes = <<>> /\ w = encCall.wBefore)

\* C1 witness: EncodeSchema of a slice failed on a member that follows encoded members.
C1_Witness ==
    /\ encCall.op = "EncodeSchema"
    /\ encRet.err # NoErr
    /\ encRet.err.path # <<>>
    /\ Head(encRet.err.path) >= 1

\* C2: encoding a string-keyed map or a struct that has no entry / no field with effective
\* key R, for a required key R of the schema, fails with an ErrVCard error naming such an R;
\* so every required key starts a line of every single record that is encoded.
C2_RequiredEnforcedOnEncode ==
    (EncCalled /\ SingleRecord(v)) =>
        LET missing == {R \in schema.requiredFields : ~HasKey(v, R)}
        IN  /\ missing # {} => (encRet.err.kind = "ErrVCard" /\ encRet.err.name \in missing)
            /\ encRet.err = NoErr =>
                  \A R \in schema.requiredFields :
                      \E i \in 1..Len(FieldLines(encRet.bytes)) :
                          StartsWith(FieldLines(encRet.bytes)[i], R)

\* C5: the suffix the emission rule prescribes for an entry
C5_Suffix(e, en) ==
    IF en.kind = "string"
    THEN IF e.smartStrings /\ ~Contains(en.val, ":") THEN <<":">> \o en.val ELSE en.val
    ELSE en.val.out

C5_Line(e, en) == en.key \o C5_Suffix(e, en) \o e.newlineSequence

\* C5: in a successfully encoded single record every field line is key + suffix + line
\* terminator of a field or entry of the value, every field or entry whose key the schema has
\* gets that line (for a struct: in field order, nothing else), where the suffix of a string s
\* is `:` + s in smart mode when s holds no `:` and s otherwise, and the suffix of a
\* VCardFieldMarshaler is what MarshalVCardField returned.
C5_ValueEmissionRule ==
    (EncOk /\ SingleRecord(v)) =>
        LET e == encCall.e
            L == FieldLines(encRet.bytes)
            inSchema == SelectSeq(v.fields, LAMBDA f : vCardName(f) \in schema.fields)
        IN  /\ \A i \in 1..Len(L) : \E en \in Entries(v) : L[i] = C5_Line(e, en)
            /\ \A en \in Entries(v) :
                  en.key \in schema.fields => \E i \in 1..Len(L) : L[i] = C5_Line(e, en)
            /\ v.kind = "struct" =>
                  L = [i \in 1..Len(inSchema) |->
                          C5_Line(e, [key |-> vCardName(inSchema[i]), kind |-> inSchema[i].kind,
                                      val |-> inSchema[i].val])]

\* C5 witness: a map with a string value holding an inner `:` was encoded in smart mode.
C5_Witness ==
    /\ EncOk
    /\ v.kind = "map"
    /\ v.elemKind = "string"
    /\ encCall.e.smartStrings
    /\ \E en \in Entries(v) : en.key \in schema.fields /\ en.val = sParam

\* C6: a successfully encoded single record starts with BEGIN:VCARD EOL VERSION:<version> EOL
\* and ends with END:VCARD EOL, every line of it ends with EOL, the encoder's newline
\* sequence, and a value without fields or entries gives exactly the three framing lines.
C6_Framing ==
    (EncOk /\ SingleRecord(v)) =>
        LET eol == encCall.e.newlineSequence
            out == encRet.bytes
            hdr == expectedHeader \o eol \o kVERSION \o <<":">> \o schema.version \o eol
            ftr == expectedFooter \o eol
        IN  /\ StartsWith(out, hdr)
            /\ EndsWith(out, ftr)
            /\ Len(out) >= Len(hdr) + Len(ftr)
            /\ \A i \in 1..Len(Lines(out)) : EndsWith(Lines(out)[i], eol)
            /\ Entries(v) = {} => out = hdr \o ftr

\* C6 witness: a record with field lines was encoded with the newline sequence set to "\n".
C6_Witness ==
    /\ EncOk
    /\ SingleRecord(v)
    /\ encCall.e.newlineSequence = LF
    /\ Len(Lines(encRet.bytes)) > 3

SingleOutputs(e, x, sch) ==
    {r.b : r \in {q \in encode(e, <<>>, x, [schema |-> sch]) : q.err = NoErr}}

\* the concatenations, in order, of single-record encodings of the members
RECURSIVE Concats(_, _, _)
Concats(e, elems, sch) ==
    IF elems = <<>> THEN {<<>>}
    ELSE {a \o b : a \in SingleOutputs(e, Head(elems), sch), b \in Concats(e, Tail(elems), sch)}

\* C8: encoding a slice of maps or structs whose members all encode succeeds, a successful
\* encoding is the concatenation in index order of single-record encodings of the members,
\* and an empty slice encodes to nothing.
C8_MultiRecord ==
    (EncCalled /\ v.kind = "slice" /\ v.elemKind \in {"map", "struct"}) =>
        LET e == encCall.e
        IN  /\ (\A i \in 1..Len(v.elems) : SingleOutputs(e, v.elems[i], schema) # {})
                   => encRet.err = NoErr
            /\ encRet.err = NoErr => encRet.bytes \in Concats(e, v.elems, schema)
            /\ v.elems = <<>> => (encRet.err = NoErr /\ encRet.bytes = <<>>)

\* C8 witness: a slice of two different members was encoded.
C8_Witness ==
    /\ EncOk
    /\ v.kind = "slice"
    /\ Len(v.elems) >= 2
    /\ v.elems[1] # v.elems[2]
    /\ encRet.bytes # <<>>

\* C3: when the document parses, its VERSION line selects a registered schema S and the
\* target is a pointer to a struct or to a non-nil map, a required key of S that is no key
\* of the document makes Decode fail with an error that wraps ErrParsing and names such a key.
C3_RequiredEnforcedOnDecode ==
    (Decoded /\ (StructTarget(decCall.before) \/ MapTarget(decCall.before))
             /\ SelectsSchema(decCall.data, decCall.schemas)) =>
        LET S == UsedSchema(decCall.data, decCall.schemas)
            missing == S.requiredFields \ DocKeys(decCall.data)
        IN  missing # {} =>
                /\ IsErrParsing(decRet)
                /\ decRet.what = "document does not contain a required field"
                /\ decRet.name \in missing

\* C3 witness: a document without a required key was decoded into a non-nil map.
C3_Witness ==
    /\ Decoded
    /\ MapTarget(decCall.before)
    /\ SelectsSchema(decCall.data, decCall.schemas)
    /\ UsedSchema(decCall.data, decCall.schemas).requiredFields \ DocKeys(decCall.data) # {}
    /\ IsErrParsing(decRet)

\* C9: the string a raw suffix decodes to
C9_Value(smart, suf) == IF smart /\ Head(suf) = ":" THEN Tail(suf) ELSE suf

\* C9: after a successful Decode into a struct, every string field whose effective key is in
\* the selected schema's field set and is a key of the document holds the suffix of the
\* document's last line with that key, less one leading `:` in smart mode, and all of it,
\* a leading `:` included, when smart strings are off.
C9_SmartStringDecode ==
    (Decoded /\ decRet = NoErr /\ StructTarget(decCall.before)) =>
        LET doc == decCall.data
            S == UsedSchema(doc, decCall.schemas)
            fs == decCall.before.elem.fields
        IN  \A i \in 1..Len(fs) :
                (fs[i].kind = "string" /\ vCardName(fs[i]) \in S.fields
                                       /\ vCardName(fs[i]) \in DocKeys(doc)) =>
                    target.elem.fields[i].val =
                        C9_Value(decCall.smartStrings, LastSuffix(doc, vCardName(fs[i])))

\* C9 witness: with smart strings off a field was set to a value that keeps its leading `:`.
C9_Witness ==
    /\ Decoded
    /\ decRet = NoErr
    /\ StructTarget(decCall.before)
    /\ ~decCall.smartStrings
    /\ \E i \in 1..Len(target.elem.fields) :
          /\ target.elem.fields[i].kind = "string"
          /\ target.elem.fields[i].val # decCall.before.elem.fields[i].val
          /\ Head(target.elem.fields[i].val) = ":"

\* the document is one well-formed record: it parses, selects a schema, has its footer and
\* nothing but white space after it
C10_WellFormed(doc, schemas) ==
    /\ SelectsSchema(doc, schemas)
    /\ TrimSpace(AfterFooter(Lines(doc))) = <<>>

\* a struct of exported string fields
C10_PlainStruct(x) ==
    \A i \in 1..Len(x.fields) : x.fields[i].kind = "string" /\ IsExported(x.fields[i].name)

C4_Case(x, sch) ==
    /\ x.kind = "struct"
    /\ \A i \in 1..Len(x.fields) :
          /\ x.fields[i].kind = "string"
          /\ IsExported(x.fields[i].name)
          /\ ~Contains(x.fields[i].val, ":")
          /\ vCardName(x.fields[i]) \in sch.fields
    /\ \A R \in sch.requiredFields : HasKey(x, R)

\* C4: for such a struct x, UnmarshalSchema of MarshalSchema(x) into a zero value of x's type,
\* under the same schema and with default settings, returns no error and a value equal to x.
C4_RoundTrip ==
    (Decoded /\ encCall.op = "MarshalSchema" /\ C4_Case(v, schema)) =>
        (decRet = NoErr /\ target = Ptr(v))

\* a non-nil map[string]string behind a pointer
StringMapOf(t) == MapTarget(t) /\ t.elem.keyKind = "string" /\ t.elem.elemKind = "string"

\* the document is one well-formed record that has the required keys of the schema it selects
ValidRecord(doc, schemas) ==
    /\ C10_WellFormed(doc, schemas)
    /\ UsedSchema(doc, schemas).requiredFields \subseteq DocKeys(doc)

\* C11: after Decode of a well-formed document with its required keys into a non-nil
\* map[string]string, the map's entries are exactly k -> the raw suffix of the document's
\* (last) line with key k, leading `:` included, for the keys k of the document that are in
\* the selected schema's field set, whatever the smart-strings setting and whatever the map
\* held before.
C11_MapStringContent ==
    (Decoded /\ StringMapOf(decCall.before) /\ ValidRecord(decCall.data, decCall.schemas)) =>
        LET doc == decCall.data
            S == UsedSchema(doc, decCall.schemas)
        IN  /\ target.kind = "ptr" /\ target.elem.kind = "map"
            /\ target.elem.entries = [k \in S.fields \cap DocKeys(doc) |-> LastSuffix(doc, k)]

\* C11 witness: a map that held an entry was decoded into from a document with a key the
\* schema does not have; the map now holds the document's entries and not that key.
C11_Witness ==
    /\ Decoded
    /\ StringMapOf(decCall.before)
    /\ ValidRecord(decCall.data, decCall.schemas)
    /\ kHELLO \in DOMAIN decCall.before.elem.entries
    /\ kHELLO \in DocKeys(decCall.data)
    /\ kHELLO \notin DOMAIN target.elem.entries
    /\ kFN \in DOMAIN target.elem.entries
    /\ Head(target.elem.entries[kFN]) = ":"

\* C12: decoding a well-formed single-record document with its required keys into a non-nil
\* string-keyed map of strings, or of a struct type that implements VCardFieldUnmarshaler and
\* accepts the document's values, returns no error.
C12_MapDecodeSucceeds ==
    (Decoded /\ MapTarget(decCall.before) /\ decCall.before.elem.keyKind = "string"
             /\ ValidRecord(decCall.data, decCall.schemas)
             /\ \/ decCall.before.elem.elemKind = "string"
                \/ /\ decCall.before.elem.elemKind = "struct"
                   /\ decCall.before.elem.elemType.unmarshaler
                   /\ \A k \in UsedSchema(decCall.data, decCall.schemas).fields
                                  \cap DocKeys(decCall.data) :
                          ~unmarshalFails(decCall.before.elem.elemType,
                                          LastSuffix(decCall.data, k)))
        => decRet = NoErr

\* the document has a footer line and something other than white space after it
C13_Leftover(doc) ==
    /\ \E i \in 1..Len(Lines(doc)) : TrimSpace(Lines(doc)[i]) = expectedFooter
    /\ TrimSpace(AfterFooter(Lines(doc))) # <<>>

\* a target whose slots every value of a document fits: a struct of exported string fields
\* that declares the required keys of the registered schemas, or a non-nil map[string]string
C13_Target(t, schemas) ==
    \/ /\ StructTarget(t)
       /\ C10_PlainStruct(t.elem)
       /\ \A ver \in DOMAIN schemas : \A R \in schemas[ver].requiredFields : HasKey(t.elem, R)
    \/ StringMapOf(t)

\* C13: for such a struct or map target, Decode returns an error that is ErrLeftoverTokens
\* exactly when the document parses, selects a schema, has that schema's required keys and
\* its footer line, and the text after the footer holds something other than white space.
C13_LeftoverDetection ==
    (Decoded /\ C13_Target(decCall.before, decCall.schemas)) =>
        (IsErrLeftoverTokens(decRet) <=>
            /\ SelectsSchema(decCall.data, decCall.schemas)
            /\ UsedSchema(decCall.data, decCall.schemas).requiredFields
                   \subseteq DocKeys(decCall.data)
            /\ C13_Leftover(decCall.data))

\* C14: a well-formed document that has every required key of the schema it selects decodes
\* without an error into any struct of exported string fields, also one that declares no
\* field for some required key.
C14_RequiredCheckSchemaDriven ==
    (Decoded /\ StructTarget(decCall.before) /\ C10_PlainStruct(decCall.before.elem)
             /\ ValidRecord(decCall.data, decCall.schemas))
        => decRet = NoErr

\* C15: decoding a well-formed version-4.0 document that has FN into the library's schema
\* struct returns no error and sets every field whose name is a key of the document to the
\* document's value.
C15_SchemaStructAsTarget ==
    (Decoded /\ decCall.before = Ptr(SchemaV4Target)
             /\ ValidRecord(decCall.data, decCall.schemas)
             /\ UsedSchema(decCall.data, decCall.schemas).version = V40) =>
        /\ decRet = NoErr
        /\ \A i \in 1..Len(SchemaV4Target.fields) :
              SchemaV4Target.fields[i].name \in DocKeys(decCall.data) =>
                  target.elem.fields[i].val =
                      C9_Value(decCall.smartStrings,
                               LastSuffix(decCall.data, SchemaV4Target.fields[i].name))

\* the lines of an output whose key is VERSION
VersionLines(out) ==
    {i \in 1..Len(Lines(out)) : KeyOfLine(TrimSpace(Lines(out)[i])) = kVERSION}

\* C16: the output of a successfully encoded single record has exactly one line with the key
\* VERSION, the framing line, also when the struct has a VERSION field or the map a VERSION
\* key.
C16_VersionFieldIgnored ==
    (EncOk /\ SingleRecord(v)) => Cardinality(VersionLines(encRet.bytes)) = 1

\* an argument of Decode that is no pointer, a nil pointer, or a pointer to something other
\* than a struct, a map or a slice
C17_InvalidTarget(t) ==
    \/ t.kind \notin {"ptr", "nilptr"}
    \/ t.kind = "nilptr"
    \/ t.kind = "ptr" /\ t.elem.kind \notin {"struct", "map", "slice"}

\* C17: Decode with such an argument returns an error that is ErrVCard and not ErrParsing,
\* and leaves the argument as it was.
C17_InvalidTargetRejected ==
    (Decoded /\ C17_InvalidTarget(decCall.before)) =>
        /\ decRet.kind = "ErrVCard"
        /\ ~IsErrParsing(decRet)
        /\ target = decCall.before

\* a type that is neither string nor an implementation of VCardFieldMarshaler
C18_UnsupportedType(kind, val) ==
    /\ kind # "string"
    /\ ~(kind \in {"struct", "interface"} /\ val.marshaler)

\* a struct that declares a field of such a type, or a map with values of such a type
C18_Unsupported(x) ==
    IF x.kind = "struct"
    THEN \E i \in 1..Len(x.fields) : C18_UnsupportedType(x.fields[i].kind, x.fields[i].val)
    ELSE /\ x.elemKind \notin {"string", "interface"}
         /\ ~(x.elemKind = "struct" /\ x.elemImpl)

\* C18: encoding a struct that declares a field whose type is neither string nor a
\* VCardFieldMarshaler, or a string-keyed map with such a value type, fails with an ErrVCard
\* error and emits nothing.
C18_FailFastUnsupported ==
    (EncCalled /\ SingleRecord(v) /\ C18_Unsupported(v)) =>
        (encRet.err.kind = "ErrVCard" /\ encRet.bytes = <<>> /\ w = encCall.wBefore)

\* C19: whenever Decode into a struct or a map returns an error, the target is exactly as it
\* was before the call.
C19_DecodeFailureAtomicity ==
    (Decoded /\ (StructTarget(decCall.before) \/ MapTarget(decCall.before))
             /\ decRet # NoErr)
        => target = decCall.before

\* two schemas of the list have the same version
C20_Duplicate(list) ==
    \E i, j \in 1..Len(list) : i < j /\ list[i].version = list[j].version

----------------------------------------------------------------------------
(* Schema construction                                                     *)

MaxFields == 2

\* the type arguments SchemaFor is instantiated with: struct types whose fields
\* have distinct names, and types of another kind
SchemaTypes ==
    {Struct(fs) : fs \in {q \in SeqsUpTo({Fld(n, t, "string") :
                                              n \in {kN, kFN, kTEL, kHELLO},
                                              t \in {<<>>, tagRequired, <<"T", ",">> \o tagRequired}},
                                         MaxFields) :
                             \A i, j \in 1..Len(q) : q[i].name = q[j].name => i = j}}
    \cup {[kind |-> "string"], [kind |-> "map"], [kind |-> "ptr"]}

\* SchemaFor[T](version): panics when T is not a struct, or builds the schema
SchemaForCall ==
    /\ encCall.op = "none"
    /\ \E typ \in SchemaTypes, version \in {V40, V30} :
          /\ IF typ.kind # "struct"
             THEN /\ decRet' = panicErr("cannot create schema from a type that is not a struct")
                  /\ schema' = schema
             ELSE /\ decRet' = NoErr
                  /\ schema' = SchemaFor(typ.fields, version)
          /\ v' = typ
          /\ encCall' = [op |-> "SchemaFor", version |-> version]
    /\ UNCHANGED <<enc, w, writes, encRet, dec, target, decCall>>

\* the construction of a Schema from a type
SpecSchema == InitNew /\ [][SchemaForCall]_vars

\* C21: SchemaFor panics when its type argument is not a struct; otherwise the
\* schema has the given version, its field set is exactly the set of the
\* type's field names, its required set is exactly the names of the fields
\* whose `vCard` tag holds `required`, and so requiredFields is a subset of
\* fields; a struct without fields gives two empty sets.
C21_SchemaConstruction ==
    encCall.op = "SchemaFor" =>
        IF v.kind # "struct" THEN decRet.kind = "panic"
        ELSE /\ decRet = NoErr
             /\ schema.version = encCall.version
             /\ \A n \in {kN, kFN, kTEL, kHELLO, kVERSION} :
                   /\ n \in schema.fields <=> \E i \in 1..Len(v.fields) : v.fields[i].name = n
                   /\ n \in schema.requiredFields <=>
                         \E i \in 1..Len(v.fields) :
                            /\ v.fields[i].name = n
                            /\ HasSubstr(v.fields[i].tag, tagRequired)
             /\ schema.fields \subseteq {kN, kFN, kTEL, kHELLO}
             /\ schema.requiredFields \subseteq schema.fields
             /\ (v.fields = <<>> => schema.fields = {} /\ schema.requiredFields = {})

\* a schema built from a struct with a required and an optional field
C21_Witness ==
    /\ encCall.op = "SchemaFor"
    /\ v.kind = "struct"
    /\ Len(v.fields) = 2
    /\ schema.requiredFields # {}
    /\ schema.requiredFields # schema.fields

----------------------------------------------------------------------------
(* One Encoder and one Decoder that share the package's 4.0 schema         *)

MaxSinkWrites == 2

\* the values handed to Encode: two that encode, one of an unsupported field type,
\* one without the required FN
SinkValues ==
    {StringUser(sA, sColonA),
     Map("string", "string", FALSE, [k \in {kFN} |-> sA]),
     UnsupportedUser,
     Map("string", "string", FALSE, [k \in {kN} |-> sA])}

\* a Write that replaces the content of the sink
Encode_overwrite ==
    /\ writes < MaxSinkWrites
    /\ \E x \in SinkValues :
          /\ v' = x
          /\ \E r \in EncodeSchemaResults(enc, x, schema) :
                /\ w' = IF r.err = NoErr THEN EncodeSchemaWrite(enc, r, schema) ELSE w
                /\ writes' = IF r.err = NoErr THEN writes + 1 ELSE writes
                /\ encCall' = [op |-> "Encode", e |-> enc, wBefore |-> w]
                /\ encRet' = [err |-> r.err, bytes |-> EncodeSchemaWrite(enc, r, schema)]
    /\ UNCHANGED <<enc, schema>>
    /\ UNCHANGED decVars

\* Encoder.Encode(x): EncodeSchema(x, SchemaV4), the variable schema holding SchemaV4
Encode ==
    /\ writes < MaxSinkWrites
    /\ \E x \in SinkValues :
          /\ v' = x
          /\ \E r \in EncodeSchemaResults(enc, x, schema) :
                /\ w' = w \o EncodeSchemaWrite(enc, r, schema)
                /\ writes' = IF r.err = NoErr THEN writes + 1 ELSE writes
                /\ encCall' = [op |-> "Encode", e |-> enc, wBefore |-> w]
                /\ encRet' = [err |-> r.err, bytes |-> EncodeSchemaWrite(enc, r, schema)]
    /\ UNCHANGED <<enc, schema>>
    /\ UNCHANGED decVars

InitShared ==
    /\ enc = NewEncoder
    /\ w = <<>>
    /\ writes = 0
    /\ v = [kind |-> "nil"]
    /\ schema = SchemaV4
    /\ encCall = NoCall
    /\ encRet = [err |-> NoErr, bytes |-> <<>>]
    /\ \E doc \in {Record(<<lVersion4, lFN>>, LF), Record(<<lVersion3, lFN>>, LF)} :
          dec = NewDecoder(doc, <<schema, DecSchemaV3>>)
    /\ target \in {Ptr(StringTarget(sZ, sZ)), Ptr(StringMapTarget(FALSE, EmptyMap))}
    /\ decCall = NoCall
    /\ decRet = NoErr

NextShared == EncSetSmartStrings \/ SetNewlineSequence \/ Encode \/ Decode

\* Encode calls on one Encoder and Decode calls on one Decoder, in any order
SpecShared == InitShared /\ [][NextShared]_vars

C23_Padded(line, token) ==
    \E i \in 1..(Len(line) - Len(token) + 1) :
       /\ SubSeq(line, i, i + Len(token) - 1) = token
       /\ \A j \in 1..Len(line) : (j < i \/ j >= i + Len(token)) => IsSpace(line[j])

\* res is what stripping the line token off text has to return
C23_Strip(res, text, token) ==
    IF text = <<>>
    THEN IsErrParsing(res.err) /\ res.err.what = "unexpected EOF" /\ res.s = text
    ELSE LET line == Lines(text)[1]
         IN  IF C23_Padded(line, token)
             THEN res.err = NoErr /\ line \o res.s = text
             ELSE IsErrParsing(res.err) /\ res.s = text

\* where the texts start: at the start of a line of the input, one character into a line,
\* and at the end of the input
C23_Starts(data) ==
    {i \in 1..(Len(data) + 1) : i <= 2 \/ data[i - 1] = "\n" \/ (i > 2 /\ data[i - 2] = "\n")}

\* C23: on every text that starts at or just after the start of a line of the
\* input of a Decode call (the empty text at its end included),
\* decodeRecordHeader (decodeRecordFooter) fails with a parse error of
\* unexpected end when the text is empty, fails with a parse error when the
\* first line, trimmed, is not BEGIN:VCARD (END:VCARD), and otherwise returns
\* the text without exactly that first line and its terminator; on failure
\* the text comes back unchanged. "\n" and "\r\n" terminators are both accepted.
C23_HeaderFooterStripping ==
    Decoded =>
        \A i \in C23_Starts(decCall.data) :
           LET text == SubSeq(decCall.data, i, Len(decCall.data))
           IN  /\ C23_Strip(decodeRecordHeader(text), text, expectedHeader)
               /\ C23_Strip(decodeRecordFooter(text), text, expectedFooter)

\* a decoded document whose header and footer lines end in "\r\n"
C23_Witness ==
    /\ Decoded
    /\ decRet = NoErr
    /\ Contains(decCall.data, "\r")
    /\ decodeRecordHeader(decCall.data).err = NoErr
    /\ \E i \in 1..Len(decCall.data) :
          LET text == SubSeq(decCall.data, i, Len(decCall.data))
          IN  decodeRecordFooter(text).err = NoErr /\ Contains(Lines(text)[1], "\r")

\* t splits into key, its longest prefix of letters, and suf, the rest, which is not empty
C24_Split(t, key, suf) ==
    /\ key \o suf = t
    /\ key # <<>>
    /\ \A i \in 1..Len(key) : IsLetter(key[i])
    /\ suf # <<>>
    /\ ~IsLetter(suf[1])

C24_Splits(t) == \E n \in 1..(Len(t) - 1) : C24_Split(t, SubSeq(t, 1, n), SubSeq(t, n + 1, Len(t)))

\* the Decoder of the last Decode call
C24_Decoder == [smartStrings |-> decCall.smartStrings, schemas |-> decCall.schemas, r |-> <<>>]

\* C24: when a document with a header line is decoded into a struct, every
\* trimmed line t before the first END:VCARD line is split into the longest
\* prefix of letters (the key) and the rest from the first non-letter on (the
\* raw suffix), key + suffix = t; if some line has no non-letter (a blank line
\* included) or starts with a non-letter, Decode fails with a parse error
\* quoting the first such line. Parameters stay in the suffix.
C24_FieldSplitting ==
    (/\ Decoded
     /\ StructTarget(decCall.before)
     /\ decodeRecordHeader(decCall.data).err = NoErr) =>
        LET L == DocLines(decCall.data)
            bad == {i \in 1..Len(L) : ~C24_Splits(L[i])}
        IN  IF bad # {}
            THEN /\ IsErrParsing(decRet)
                 /\ decRet.what = "unable to decode line"
                 /\ TrimSpace(decRet.name) = L[CHOOSE i \in bad : \A j \in bad : i <= j]
            ELSE \A r \in decodeVCardFieldsIntoMap(C24_Decoder, decCall.data) :
                    /\ \A i \in 1..Len(L) :
                          \E k \in DOMAIN r.m : \E suf \in {SubSeq(L[i], n, Len(L[i])) : n \in 1..Len(L[i])} :
                             C24_Split(L[i], k, suf)
                    /\ \A k \in DOMAIN r.m : \E i \in 1..Len(L) : C24_Split(L[i], k, r.m[k])

\* a decoded document with the line TEL;T:5, split into the key TEL and the suffix ;T:5
C24_Witness ==
    /\ Decoded
    /\ StructTarget(decCall.before)
    /\ decRet = NoErr
    /\ \E i \in 1..Len(DocLines(decCall.data)) : DocLines(decCall.data)[i] = lTEL
    /\ \A r \in decodeVCardFieldsIntoMap(C24_Decoder, decCall.data) :
          kTEL \in DOMAIN r.m /\ r.m[kTEL] = <<";", "T", ":", "5">>

\* a decode that failed on a line without a key
C24_WitnessBadLine ==
    /\ Decoded
    /\ StructTarget(decCall.before)
    /\ decRet.what = "unable to decode line"
    /\ TrimSpace(decRet.name) = <<":", "a">>

\* the lines of L whose key is k
C25_LinesOf(L, k) == {i \in 1..Len(L) : KeyOfLine(L[i]) = k}

\* the suffix of the last of them
C25_Last(L, k) ==
    SuffixOfLine(L[CHOOSE i \in C25_LinesOf(L, k) : \A j \in C25_LinesOf(L, k) : j <= i])

\* C25: when a key occurs on several lines of a record, the raw field map holds
\* the suffix of the last such line and a struct field bound to that key
\* receives it; so for VERSION: the last VERSION line names the schema that
\* the record is validated against.
C25_LastWriteWins ==
    (Decoded /\ StructTarget(decCall.before) /\ Parses(decCall.data)) =>
        LET doc == decCall.data
            L == DocLines(doc)
            repeated == {k \in DocKeys(doc) : Cardinality(C25_LinesOf(L, k)) > 1}
            fs == decCall.before.elem.fields
        IN  \A r \in decodeVCardFieldsIntoMap(C24_Decoder, doc) :
               /\ \A k \in repeated : r.m[k] = C25_Last(L, k)
               /\ (kVERSION \in repeated /\ Tail(C25_Last(L, kVERSION)) \in DOMAIN decCall.schemas) =>
                     LET S == decCall.schemas[Tail(C25_Last(L, kVERSION))]
                     IN  /\ r.schema = S
                         /\ (S.requiredFields \ DocKeys(doc) # {}) <=>
                               decRet.what = "document does not contain a required field"
                         /\ decRet.what = "document does not contain a required field" =>
                               decRet.name \in S.requiredFields \ DocKeys(doc)
               /\ decRet = NoErr =>
                     \A i \in 1..Len(fs) :
                        (/\ fs[i].kind = "string"
                         /\ vCardName(fs[i]) \in repeated
                         /\ vCardName(fs[i]) \in r.schema.fields) =>
                            target.elem.fields[i].val =
                                C9_Value(decCall.smartStrings, C25_Last(L, vCardName(fs[i])))

\* a record with the lines VERSION:4.0, VERSION:3.0 and N:a was validated against
\* the 3.0 schema, which requires N and not FN
C25_Witness ==
    /\ Decoded
    /\ StructTarget(decCall.before)
    /\ decRet = NoErr
    /\ DocLines(decCall.data) = <<expectedHeader, lVersion4, lVersion3, lN>>

\* a record with the lines N:a and N;b gave the field N the value ;b
C25_WitnessField ==
    /\ Decoded
    /\ decRet = NoErr
    /\ decCall.before = Ptr(StringTarget(sZ, sZ))
    /\ DocLines(decCall.data) = <<expectedHeader, lVersion3, lN, lN2>>
    /\ target.elem.fields[1].val = <<";", "b">>

\* C26: when a document that parses is decoded into a struct or a non-nil map,
\* a record without a VERSION line fails with a parse error saying that VERSION
\* was not found, and a record whose version (what follows the first character
\* of the last VERSION suffix) has no registered schema fails with a parse
\* error naming that version; in both cases no required-field error is
\* reported and the target is left as it was.
C26_VersionResolutionFailures ==
    (/\ Decoded
     /\ StructTarget(decCall.before) \/ MapTarget(decCall.before)
     /\ Parses(decCall.data)) =>
        LET doc == decCall.data
        IN  /\ kVERSION \notin DocKeys(doc) =>
                  /\ IsErrParsing(decRet)
                  /\ decRet.what = "field was not found"
                  /\ decRet.name = kVERSION
                  /\ target = decCall.before
            /\ (/\ kVERSION \in DocKeys(doc)
                /\ Tail(LastSuffix(doc, kVERSION)) \notin DOMAIN decCall.schemas) =>
                  /\ IsErrParsing(decRet)
                  /\ decRet.what = "schema for version was not provided"
                  /\ decRet.name = Tail(LastSuffix(doc, kVERSION))
                  /\ target = decCall.before

\* a record of an unregistered version was rejected
C26_Witness ==
    /\ Decoded
    /\ StructTarget(decCall.before)
    /\ Parses(decCall.data)
    /\ kVERSION \in DocKeys(decCall.data)
    /\ LastSuffix(decCall.data, kVERSION) = <<":", "9">>
    /\ decRet.name = <<"9">>
    /\ target = decCall.before

\* a record without a VERSION line was rejected
C26_WitnessNoVersion ==
    /\ Decoded
    /\ MapTarget(decCall.before)
    /\ Parses(decCall.data)
    /\ kVERSION \notin DocKeys(decCall.data)
    /\ decRet.what = "field was not found"

\* the raw suffix less a leading `:`
C27_LookupKey(suf) == IF Head(suf) = ":" THEN Tail(suf) ELSE suf

\* C27: the schema of a record is looked up under the last VERSION line's raw
\* suffix less a leading `:`; a record whose VERSION suffix starts with another
\* character, such as VERSION;4.0, is not taken as version 4.0: with no schema
\* registered under that key, Decode fails with the error for an unregistered
\* version.
C27_VersionLookupKey ==
    (/\ Decoded
     /\ StructTarget(decCall.before) \/ MapTarget(decCall.before)
     /\ Parses(decCall.data)
     /\ kVERSION \in DocKeys(decCall.data)) =>
        LET key == C27_LookupKey(LastSuffix(decCall.data, kVERSION))
        IN  key \notin DOMAIN decCall.schemas =>
               /\ IsErrParsing(decRet)
               /\ decRet.what = "schema for version was not provided"
               /\ target = decCall.before

\* the keys of the lines between the header line and the footer line
C28_BodyKeys(doc) ==
    LET body == Tail(DocLines(doc)) IN {KeyOfLine(body[i]) : i \in 1..Len(body)}

\* C28: the fields are split from the text after the header line, so when a
\* document with a header line and no field line BEGIN is decoded into a
\* struct, the raw field map has no key BEGIN and a field of the target bound
\* to the key BEGIN keeps its value.
C28_HeaderNotAField ==
    (/\ Decoded
     /\ StructTarget(decCall.before)
     /\ Parses(decCall.data)
     /\ kBEGIN \notin C28_BodyKeys(decCall.data)) =>
        LET doc == decCall.data
            fs == decCall.before.elem.fields
        IN  /\ \A r \in decodeVCardFieldsIntoMap(C24_Decoder,
                                                 fieldsInput(doc, decodeRecordHeader(doc).s)) :
                  kBEGIN \notin DOMAIN r.m
            /\ \A i \in 1..Len(fs) :
                  vCardName(fs[i]) = kBEGIN => target.elem.fields[i].val = fs[i].val

\* the part of C28 that is seen in the target alone
C28_TargetKeepsBEGIN ==
    (/\ Decoded
     /\ StructTarget(decCall.before)
     /\ Parses(decCall.data)
     /\ kBEGIN \notin C28_BodyKeys(decCall.data)) =>
        \A i \in 1..Len(decCall.before.elem.fields) :
           vCardName(decCall.before.elem.fields[i]) = kBEGIN =>
              target.elem.fields[i].val = decCall.before.elem.fields[i].val

\* the documents value x encodes to under settings e
C29_Documents(e, x) == {r.b : r \in {q \in EncodeSchemaResults(e, x, SchemaV4) : q.err = NoErr}}

----------------------------------------------------------------------------
(* One Decoder, several Decode calls, each with a target of its own        *)

\* a Decode that tests its argument before it reads the input
DecodeInto_validatesFirst ==
    /\ \E t \in DecTargets \cup OtherTargets :
          /\ \E r \in DecodeResults(dec, dec.r, t) :
                /\ target' = r.val
                /\ decRet' = r.err
          /\ decCall' = [op |-> "Decode", data |-> dec.r, before |-> t,
                         smartStrings |-> dec.smartStrings, schemas |-> dec.schemas]
          /\ dec' = IF t.kind = "ptr" THEN [dec EXCEPT !.r = <<>>] ELSE dec
    /\ UNCHANGED encVars

\* Decoder.Decode(t), for an argument t of the caller's choice
DecodeInto ==
    /\ \E t \in DecTargets \cup OtherTargets :
          /\ \E r \in DecodeResults(dec, dec.r, t) :
                /\ target' = r.val
                /\ decRet' = r.err
          /\ decCall' = [op |-> "Decode", data |-> dec.r, before |-> t,
                         smartStrings |-> dec.smartStrings, schemas |-> dec.schemas]
    /\ dec' = [dec EXCEPT !.r = <<>>]
    /\ UNCHANGED encVars

\* a Decoder over one input stream that is not empty, and the Decode calls made on it
SpecStream ==
    /\ enc = NewEncoder
    /\ w = <<>>
    /\ writes = 0
    /\ v = [kind |-> "nil"]
    /\ schema = EmptySchema
    /\ encCall = NoCall
    /\ encRet = [err |-> NoErr, bytes |-> <<>>]
    /\ \E doc \in (FewDocs \ {<<>>}) \cup {Join(<<lVersion4, lFN, expectedFooter>>, LF)} :
          dec = NewDecoder(doc, DecSchemas)
    /\ target = [kind |-> "nil"]
    /\ decCall = NoCall
    /\ decRet = NoErr
    /\ [][DecodeInto]_vars

\* C30: every Decode call, whether it succeeds, fails on its input or rejects
\* its argument, leaves the Decoder's input read to its end; so every Decode
\* that follows another on the same Decoder sees empty input, leaves its
\* target as it was and, given a pointer to a struct or to a non-nil map,
\* fails with a parse error of unexpected end.
C30_InputConsumedOnce ==
    [][decCall' # decCall \/ target' # target \/ decRet' # decRet =>
          /\ dec'.r = <<>>
          /\ decCall'.data = dec.r
          /\ decCall.op = "Decode" =>
                /\ decCall'.data = <<>>
                /\ target' = decCall'.before
                /\ (StructTarget(decCall'.before) \/ MapTarget(decCall'.before)) =>
                      /\ IsErrParsing(decRet')
                      /\ decRet'.what = "unexpected EOF"]_vars

\* a Decode into a struct that came after another Decode (the input was not empty at first)
C30_Witness ==
    /\ Decoded
    /\ decCall.data = <<>>
    /\ StructTarget(decCall.before)
    /\ decRet.what = "unexpected EOF"
    /\ target = decCall.before
    /\ dec.r = <<>>

============================================================================
